---- MODULE Spec2Model ----
(***************************************************************************)
(* NMSDK scene-node objects (classes/Object.py): construction of the       *)
(* variants, add_child / populate_meshlist, create_attributes and the      *)
(* recursive construct_data pass.                                          *)
(*                                                                         *)
(* Python values are represented as follows.                               *)
(*   - an object reference is its index in the heap (1..MaxNodes); the     *)
(*     reference None held in Parent is 0;                                 *)
(*   - an optional value is <<"None">> or <<"Some", v>>; an instance       *)
(*     attribute that was never assigned is <<"Unset">>;                   *)
(*   - an attribute value is a tagged pair: <<"data", k>> is data[k],      *)
(*     <<"const", "0">> the literal 0, <<"str", s>> a string held by the   *)
(*     object, <<"shape", name>> the string name + 'Shape';                *)
(*   - a List of TkSceneNodeAttributeData is a sequence of                 *)
(*     <<Name, Value>> pairs; a TkSceneNodeData is a record.               *)
(***************************************************************************)
EXTENDS Naturals, Sequences, FiniteSets, TLC

VARIABLES heap, created, lastOp, lastArg, lastData, prevAttributes, err,
          attachLog, buildLog, rebuilt

vars == <<heap, created, lastOp, lastArg, lastData, prevAttributes, err,
          attachLog, buildLog, rebuilt>>

(* ------------------------------ bounds --------------------------------- *)

\* objects the caller constructs in one session
MaxNodes == 3

\* add_child calls in one session
MaxAttach == 2

\* a non-empty data mapping lacks at most this many of the keys
MaxMissing == 1

(* ------------------------------ values --------------------------------- *)

None == <<"None">>

Unset == <<"Unset">>

Some(v) == <<"Some", v>>

IsSome(o) == o[1] = "Some"

NodeIds == 1..MaxNodes

\* the caller's names, one per object constructed
NameOf(i) == "n" \o ToString(i)

DefaultTransform == "TkTransformData()"

DefaultScenegraph == "Enter in the path of the SCENE.MBIN you want to reference here."

StreamNames == <<"Vertices", "Indexes", "UVs", "Normals", "Tangents">>

Streams == {StreamNames[i] : i \in 1..Len(StreamNames)}

\* a keyword argument is not passed, passed as None, or passed with a value
KwStates == {"absent", "None", "data"}

NoStreams == [s \in Streams |-> "absent"]

Classes == {"Mesh", "Locator", "Joint", "Emitter", "Collision", "Model", "Reference"}

CollisionTypes == {"Mesh", "Box", "Sphere", "Capsule", "Cylinder", "Other"}

AllKeys == {"BATCHSTART", "BATCHCOUNT", "VERTRSTART", "VERTREND", "MATERIAL",
            "ATTACHMENT", "JOINTINDEX", "DATA", "GEOMETRY", "WIDTH", "HEIGHT",
            "DEPTH", "RADIUS"}

(* --------------------------- Object.__init__ --------------------------- *)

\* kwargs.get(key, default)
KwGet(kw, default) == IF kw = "absent" THEN default ELSE kw

\* a heap slot no object occupies
NoObject ==
  [Class |-> "NONE", Name |-> "", Type |-> "", Transform |-> "",
   Attributes |-> None, Children |-> <<>>, Parent |-> 0, IsMesh |-> FALSE,
   NodeData |-> None, provided_streams |-> {}, CType |-> "",
   Scenegraph |-> "", fields |-> [s \in Streams |-> "unset"],
   ListOfMeshes |-> Unset, Child_Nodes |-> Unset]

\* Object.__init__: the fields every object starts with
ObjectInit(transformKw) ==
  [NoObject EXCEPT !.Class = "Object",
                   !.Transform = KwGet(transformKw, DefaultTransform),
                   !.Attributes = None,
                   !.Children = <<>>,
                   !.Parent = 0,
                   !.IsMesh = FALSE,
                   !.NodeData = None,
                   !.provided_streams = {}]

\* self.X = kwargs.get('X', None) for each of the five streams
StoreStreams(o, kw) ==
  [o EXCEPT !.fields = [s \in Streams |-> IF kw[s] = "data" THEN "data" ELSE "None"]]

RECURSIVE IncludedFrom_Overwrite(_, _)
\* the loop assigning set([name]) instead of the union with it
IncludedFrom_Overwrite(o, i) ==
  IF i > Len(StreamNames) THEN o
  ELSE LET name == StreamNames[i]
           o1 == IF o.fields[name] \notin {"unset", "None"}
                 THEN [o EXCEPT !.provided_streams = {name}]
                 ELSE o
       IN IncludedFrom_Overwrite(o1, i + 1)

RECURSIVE IncludedFrom(_, _)
\* the loop of determine_included_streams from the i-th name on
IncludedFrom(o, i) ==
  IF i > Len(StreamNames) THEN o
  ELSE LET name == StreamNames[i]
           o1 == IF o.fields[name] \notin {"unset", "None"}
                 THEN [o EXCEPT !.provided_streams = @ \cup {name}]
                 ELSE o
       IN IncludedFrom(o1, i + 1)

\* Object.determine_included_streams
DetermineIncludedStreams(o) == IncludedFrom(o, 1)

LocatorInit(name, transformKw) ==
  [ObjectInit(transformKw) EXCEPT !.Class = "Locator", !.Name = name, !.Type = "LOCATOR"]

MeshInit(name, transformKw, kw) ==
  DetermineIncludedStreams(
    [StoreStreams(ObjectInit(transformKw), kw)
       EXCEPT !.Class = "Mesh", !.Name = name, !.Type = "MESH", !.IsMesh = TRUE])

CollisionInit(name, transformKw, ctypeKw, kw) ==
  LET o == [ObjectInit(transformKw) EXCEPT !.Class = "Collision", !.Name = name,
                                           !.Type = "COLLISION",
                                           !.CType = KwGet(ctypeKw, "Mesh")]
  IN IF o.CType = "Mesh"
     THEN DetermineIncludedStreams([StoreStreams(o, kw) EXCEPT !.IsMesh = TRUE])
     ELSE o

ModelInit(name, transformKw) ==
  [ObjectInit(transformKw) EXCEPT !.Class = "Model", !.Name = name, !.Type = "MODEL",
                                  !.ListOfMeshes = Some(<<>>)]

ReferenceInit(name, transformKw, sceneKw) ==
  [ObjectInit(transformKw) EXCEPT !.Class = "Reference", !.Name = name,
                                  !.Type = "REFERENCE",
                                  !.Scenegraph = KwGet(sceneKw, DefaultScenegraph)]

\* super(Locator, self).__init__(**kwargs) with self a Joint or an Emitter:
\* self is no instance of Locator, so super() raises TypeError before any
\* field is assigned and the caller receives no object
JointInit(name, transformKw) == [ok |-> FALSE, error |-> "TypeError", obj |-> NoObject]

EmitterInit(name, transformKw) == [ok |-> FALSE, error |-> "TypeError", obj |-> NoObject]

Built(o) == [ok |-> TRUE, error |-> "None", obj |-> o]

\* cls(name, Transform=..., CollisionType=..., Scenegraph=..., <streams>)
New(cls, name, transformKw, ctypeKw, sceneKw, kw) ==
  CASE cls = "Mesh" -> Built(MeshInit(name, transformKw, kw))
    [] cls = "Locator" -> Built(LocatorInit(name, transformKw))
    [] cls = "Joint" -> JointInit(name, transformKw)
    [] cls = "Emitter" -> EmitterInit(name, transformKw)
    [] cls = "Collision" -> Built(CollisionInit(name, transformKw, ctypeKw, kw))
    [] cls = "Model" -> Built(ModelInit(name, transformKw))
    [] cls = "Reference" -> Built(ReferenceInit(name, transformKw, sceneKw))

(* ------------------------------ state ---------------------------------- *)

Init ==
  /\ heap = [n \in NodeIds |-> NoObject]
  /\ created = 0
  /\ lastOp = "Init"
  /\ lastArg = 0
  /\ lastData = None
  /\ prevAttributes = None
  /\ err = "None"
  /\ attachLog = <<>>
  /\ buildLog = <<>>
  /\ rebuilt = FALSE

Live == 1..created

\* the caller constructs one object
Construct(cls, transformKw, ctypeKw, sceneKw, kw) ==
  /\ created < MaxNodes
  /\ LET r == New(cls, NameOf(created + 1), transformKw, ctypeKw, sceneKw, kw)
     IN /\ heap' = IF r.ok THEN [heap EXCEPT ![created + 1] = r.obj] ELSE heap
        /\ created' = IF r.ok THEN created + 1 ELSE created
        /\ lastArg' = IF r.ok THEN created + 1 ELSE 0
        /\ err' = r.error
  /\ lastOp' = "Construct"
  /\ lastData' = <<"kwargs", cls, ctypeKw, kw>>
  /\ prevAttributes' = None
  /\ buildLog' = <<>>
  /\ rebuilt' = FALSE
  /\ UNCHANGED attachLog

(* ----------------------- add_child / populate_meshlist ----------------- *)

\* give_parent with its two objects exchanged
GiveParent_Swapped(h, child, parent) == [h EXCEPT ![parent].Parent = child]

\* Object.give_parent
GiveParent(h, child, parent) == [h EXCEPT ![child].Parent = parent]

RECURSIVE PopulateMeshlist(_, _, _, _)
\* Object.populate_meshlist, called on object n with the mesh obj.  depth
\* counts the frames still available: a chain of Parent references longer
\* than the number of objects is a cycle, on which the recursion never
\* reaches a parentless object and Python raises RecursionError.
PopulateMeshlist(h, n, obj, depth) ==
  IF depth = 0 THEN [heap |-> h, error |-> "RecursionError"]
  ELSE IF h[n].Parent # 0
       THEN PopulateMeshlist(h, h[n].Parent, obj, depth - 1)
       ELSE IF IsSome(h[n].ListOfMeshes)
            THEN [heap |-> [h EXCEPT ![n].ListOfMeshes = Some(Append(@[2], obj))],
                  error |-> "None"]
            ELSE [heap |-> h, error |-> "AttributeError"]

\* Object.add_child: the heap after parent.add_child(child) and the
\* exception the call ends with, if any
AddChild(h, parent, child) ==
  LET h1 == [h EXCEPT ![parent].Children = Append(@, child)]
      h2 == GiveParent(h1, child, parent)
  IN IF h2[child].IsMesh
     THEN PopulateMeshlist(h2, parent, child, created)
     ELSE [heap |-> h2, error |-> "None"]

\* the caller runs parent.add_child(child) on two objects it holds
AttachChild(parent, child) ==
  /\ parent \in Live
  /\ child \in Live
  /\ Len(attachLog) < MaxAttach
  /\ LET r == AddChild(heap, parent, child)
     IN /\ heap' = r.heap
        /\ err' = r.error
  /\ attachLog' = Append(attachLog, <<parent, child>>)
  /\ lastOp' = "add_child"
  /\ lastArg' = parent
  /\ lastData' = None
  /\ prevAttributes' = None
  /\ buildLog' = <<>>
  /\ rebuilt' = FALSE
  /\ UNCHANGED created

(* ---------------------------- construct_data --------------------------- *)

\* TkSceneNodeData(Name=, Type=, Transform=, Attributes=, Children=)
TkSceneNodeData(name, type, transform, attributes, children) ==
  [Name |-> name, Type |-> type, Transform |-> transform,
   Attributes |-> attributes, Children |-> children]

\* Object.get_data
GetData(h, n) == h[n].NodeData

\* TkSceneNodeData built from the object's own fields (the last statement
\* of construct_data)
MakeNodeData(o) ==
  TkSceneNodeData(o.Name, o.Type, o.Transform, o.Attributes, o.Child_Nodes)

RECURSIVE ConstructData(_, _, _)
RECURSIVE ConstructChildren(_, _, _, _)

RECURSIVE ConstructChildren_Prepend(_, _, _, _)
\* the loop with each child's record put at the front of Child_Nodes
ConstructChildren_Prepend(h, n, i, depth) ==
  IF i > Len(h[n].Children) THEN [heap |-> h, log |-> <<>>, ok |-> TRUE]
  ELSE LET child == h[n].Children[i]
           r == ConstructData(h, child, depth - 1)
       IN IF ~r.ok THEN r
          ELSE LET h1 == [r.heap EXCEPT ![n].Child_Nodes =
                             Some(<<GetData(r.heap, child)[2]>> \o @[2])]
                   rest == ConstructChildren_Prepend(h1, n, i + 1, depth)
               IN [heap |-> rest.heap, log |-> r.log \o rest.log, ok |-> rest.ok]

\* the loop over self.Children of construct_data, from the i-th child on
ConstructChildren(h, n, i, depth) ==
  IF i > Len(h[n].Children) THEN [heap |-> h, log |-> <<>>, ok |-> TRUE]
  ELSE LET child == h[n].Children[i]
           r == ConstructData(h, child, depth - 1)
       IN IF ~r.ok THEN r
          ELSE LET h1 == [r.heap EXCEPT ![n].Child_Nodes =
                             Some(Append(@[2], GetData(r.heap, child)[2]))]
                   rest == ConstructChildren(h1, n, i + 1, depth)
               IN [heap |-> rest.heap, log |-> r.log \o rest.log, ok |-> rest.ok]

\* construct_data creating the object's own record before its children's
ConstructData_OwnRecordFirst(h, n, depth) ==
  IF depth = 0 THEN [heap |-> h, log |-> <<>>, ok |-> FALSE]
  ELSE LET h0 == [h EXCEPT ![n].NodeData = Some(MakeNodeData(h[n]))]
           r == IF Len(h0[n].Children) # 0
                THEN ConstructChildren([h0 EXCEPT ![n].Child_Nodes = Some(<<>>)],
                                       n, 1, depth)
                ELSE [heap |-> [h0 EXCEPT ![n].Child_Nodes = None],
                      log |-> <<>>, ok |-> TRUE]
       IN [heap |-> r.heap, log |-> <<n>> \o r.log, ok |-> r.ok]

\* construct_data that creates Child_Nodes only when the object has none
\* yet, and so appends to the list of an earlier call
ConstructData_KeepsChildNodes(h, n, depth) ==
  IF depth = 0 THEN [heap |-> h, log |-> <<>>, ok |-> FALSE]
  ELSE LET r == IF Len(h[n].Children) # 0
                THEN ConstructChildren(
                       IF IsSome(h[n].Child_Nodes) THEN h
                       ELSE [h EXCEPT ![n].Child_Nodes = Some(<<>>)],
                       n, 1, depth)
                ELSE [heap |-> [h EXCEPT ![n].Child_Nodes = None],
                      log |-> <<>>, ok |-> TRUE]
       IN IF ~r.ok THEN r
          ELSE [heap |-> [r.heap EXCEPT ![n].NodeData = Some(MakeNodeData(r.heap[n]))],
                log |-> Append(r.log, n),
                ok |-> TRUE]

\* Object.construct_data on object n: the heap afterwards, the objects whose
\* NodeData was assigned, in the order of the assignments, and whether the
\* call returned.  depth counts the frames still available: a path through
\* Children longer than the number of objects runs round a cycle, where the
\* recursion does not end and Python raises RecursionError (the heap then
\* holds the assignments made on the way down).
ConstructData(h, n, depth) ==
  IF depth = 0 THEN [heap |-> h, log |-> <<>>, ok |-> FALSE]
  ELSE LET r == IF Len(h[n].Children) # 0
                THEN ConstructChildren([h EXCEPT ![n].Child_Nodes = Some(<<>>)],
                                       n, 1, depth)
                ELSE [heap |-> [h EXCEPT ![n].Child_Nodes = None],
                      log |-> <<>>, ok |-> TRUE]
       IN IF ~r.ok THEN r
          ELSE [heap |-> [r.heap EXCEPT ![n].NodeData = Some(MakeNodeData(r.heap[n]))],
                log |-> Append(r.log, n),
                ok |-> TRUE]

\* the caller runs n.construct_data()
Build(n) ==
  /\ n \in Live
  /\ LET r == ConstructData(heap, n, created)
     IN /\ heap' = r.heap
        /\ buildLog' = r.log
        /\ err' = IF r.ok THEN "None" ELSE "RecursionError"
  /\ rebuilt' = (lastOp = "construct_data" /\ lastArg = n /\ err = "None")
  /\ lastOp' = "construct_data"
  /\ lastArg' = n
  /\ lastData' = None
  /\ prevAttributes' = None
  /\ UNCHANGED <<created, attachLog>>

(* --------------------------- create_attributes ------------------------- *)

RECURSIVE SubsetsUpTo(_, _)
\* the subsets of S with at most k elements
SubsetsUpTo(S, k) ==
  IF k = 0 THEN {{}}
  ELSE LET P == SubsetsUpTo(S, k - 1)
       IN P \cup {p \cup {x} : p \in P, x \in S}

\* the arguments a caller passes as data: None, the empty mapping, or a
\* mapping that lacks at most MaxMissing of the keys
DataInputs ==
  {None, Some({})} \cup {Some(AllKeys \ S) : S \in SubsetsUpTo(AllKeys, MaxMissing)}

\* TkSceneNodeAttributeData(Name = name, Value = data[key])
FromData(name, key) == <<name, <<"data", key>>>>

\* TkSceneNodeAttributeData(Name = name, Value = <an expression without data>)
Fixed(name, tag, value) == <<name, <<tag, value>>>>

\* data.get(key) in place of data[key]: an absent key raises nothing
Subscript_Get(data, key) == IF data = None THEN "TypeError" ELSE "None"

\* evaluating data[key]: None is not subscriptable, an absent key is a KeyError
Subscript(data, key) ==
  IF data = None THEN "TypeError"
  ELSE IF key \notin data[2] THEN "KeyError"
  ELSE "None"

RECURSIVE Emit(_, _, _, _)
\* evaluates the attribute expressions items[i..] in order, appending each
\* value to acc; stops at the first expression that raises
Emit(items, data, acc, i) ==
  IF i > Len(items) THEN [attrs |-> acc, error |-> "None"]
  ELSE LET it == items[i]
           e == IF it[2][1] = "data" THEN Subscript(data, it[2][2]) ELSE "None"
       IN IF e # "None" THEN [attrs |-> acc, error |-> e]
          ELSE Emit(items, data, Append(acc, it), i + 1)

\* self.Attributes = List(<items>): the List is assigned only once every
\* argument has been evaluated
AssignList(o, items, data) ==
  LET r == Emit(items, data, <<>>, 1)
  IN IF r.error = "None"
     THEN [obj |-> [o EXCEPT !.Attributes = Some(r.attrs)], error |-> "None"]
     ELSE [obj |-> o, error |-> r.error]

\* self.Attributes.append(<item>) for each item in turn: the appends made
\* before one raises stay in the List
AppendEach(o, items, data) ==
  LET r == Emit(items, data, o.Attributes[2], 1)
  IN [obj |-> [o EXCEPT !.Attributes = Some(r.attrs)], error |-> r.error]

\* Locator.create_attributes without its test of data
LocatorCreateAttributes_Unguarded(o, data) ==
  AssignList(o, <<FromData("ATTACHMENT", "ATTACHMENT")>>, data)

\* Locator.create_attributes
LocatorCreateAttributes(o, data) ==
  IF data # None
  THEN AssignList(o, <<FromData("ATTACHMENT", "ATTACHMENT")>>, data)
  ELSE [obj |-> o, error |-> "None"]

\* Joint.create_attributes
JointCreateAttributes(o, data) ==
  IF data # None
  THEN AssignList(o, <<FromData("JOINTINDEX", "JOINTINDEX")>>, data)
  ELSE [obj |-> o, error |-> "None"]

\* Emitter.create_attributes
EmitterCreateAttributes(o, data) ==
  IF data # None
  THEN AssignList(o, <<FromData("MATERIAL", "MATERIAL"), FromData("DATA", "DATA")>>, data)
  ELSE [obj |-> o, error |-> "None"]

\* Mesh.create_attributes
MeshCreateAttributes(o, data) ==
  AssignList(o, <<FromData("BATCHSTART", "BATCHSTART"),
                  FromData("BATCHCOUNT", "BATCHCOUNT"),
                  FromData("VERTRSTART", "VERTRSTART"),
                  FromData("VERTREND", "VERTREND"),
                  Fixed("FIRSTSKINMAT", "const", "0"),
                  Fixed("LASTSKINMAT", "const", "0"),
                  FromData("MATERIAL", "MATERIAL"),
                  Fixed("MESHLINK", "shape", o.Name),
                  FromData("ATTACHMENT", "ATTACHMENT")>>, data)

\* the appends of Collision.create_attributes for the object's CType
CollisionItems(o) ==
  IF o.CType = "Mesh"
  THEN <<FromData("BATCHSTART", "BATCHSTART"),
         FromData("BATCHCOUNT", "BATCHCOUNT"),
         FromData("VERTRSTART", "VERTRSTART"),
         FromData("VERTREND", "VERTREND"),
         Fixed("FIRSTSKINMAT", "const", "0"),
         Fixed("LASTSKINMAT", "const", "0")>>
  ELSE IF o.CType = "Box"
  THEN <<FromData("WIDTH", "WIDTH"), FromData("HEIGHT", "HEIGHT"),
         FromData("DEPTH", "DEPTH")>>
  ELSE IF o.CType = "Sphere"
  THEN <<FromData("RADIUS", "RADIUS")>>
  ELSE IF o.CType = "Capsule" \/ o.CType = "Cylinder"
  THEN <<FromData("RADIUS", "RADIUS"), FromData("HEIGHT", "HEIGHT")>>
  ELSE <<>>

\* Collision.create_attributes
CollisionCreateAttributes(o, data) ==
  LET r == AssignList(o, <<Fixed("TYPE", "str", o.CType)>>, data)
  IN AppendEach(r.obj, CollisionItems(o), data)

\* Model.create_attributes
ModelCreateAttributes(o, data) ==
  AssignList(o, <<FromData("GEOMETRY", "GEOMETRY")>>, data)

\* Reference.create_attributes
ReferenceCreateAttributes(o, data) ==
  AssignList(o, <<Fixed("SCENEGRAPH", "str", o.Scenegraph)>>, data)

\* o.create_attributes(data), dispatched on the object's class
CreateAttributesOf(o, data) ==
  CASE o.Class = "Locator" -> LocatorCreateAttributes(o, data)
    [] o.Class = "Joint" -> JointCreateAttributes(o, data)
    [] o.Class = "Emitter" -> EmitterCreateAttributes(o, data)
    [] o.Class = "Mesh" -> MeshCreateAttributes(o, data)
    [] o.Class = "Collision" -> CollisionCreateAttributes(o, data)
    [] o.Class = "Model" -> ModelCreateAttributes(o, data)
    [] o.Class = "Reference" -> ReferenceCreateAttributes(o, data)

\* the caller runs n.create_attributes(data)
CreateAttributes(n, data) ==
  /\ n \in Live
  /\ LET r == CreateAttributesOf(heap[n], data)
     IN /\ heap' = [heap EXCEPT ![n] = r.obj]
        /\ err' = r.error
  /\ lastOp' = "create_attributes"
  /\ lastArg' = n
  /\ lastData' = data
  /\ prevAttributes' = heap[n].Attributes
  /\ buildLog' = <<>>
  /\ rebuilt' = FALSE
  /\ UNCHANGED <<created, attachLog>>

(* --------------------------- specifications ---------------------------- *)

\* the classes of the objects assembled into trees, constructed with no
\* keyword arguments (a Collision is then of CollisionType "Mesh")
TreeClasses == {"Model", "Locator", "Mesh", "Collision"}

\* a session that constructs objects and links them with add_child
Next ==
  \/ \E cls \in TreeClasses : Construct(cls, "absent", "absent", "absent", NoStreams)
  \/ \E parent \in NodeIds, child \in NodeIds : AttachChild(parent, child)

Spec == Init /\ [][Next]_vars

\* a session that also runs construct_data, on any object at any time
NextBuild ==
  \/ \E cls \in TreeClasses : Construct(cls, "absent", "absent", "absent", NoStreams)
  \/ \E parent \in NodeIds, child \in NodeIds : AttachChild(parent, child)
  \/ \E n \in NodeIds : Build(n)

SpecBuild == Init /\ [][NextBuild]_vars

\* a session that constructs one object of any class and collision type and
\* then calls create_attributes on it with any data, any number of times
NextNode ==
  \/ /\ lastOp = "Init"
     /\ \E cls \in Classes, transformKw \in {"absent", "T1"},
           ctypeKw \in {"absent"} \cup CollisionTypes,
           sceneKw \in {"absent", "SCENE.MBIN"} :
             Construct(cls, transformKw, ctypeKw, sceneKw, NoStreams)
  \/ \E n \in NodeIds, data \in DataInputs : CreateAttributes(n, data)

SpecNode == Init /\ [][NextNode]_vars

\* the construction of one object of any class with every combination of
\* the five stream keyword arguments
NextStreams ==
  /\ lastOp = "Init"
  /\ \E cls \in Classes, transformKw \in {"absent", "T1"},
        ctypeKw \in {"absent", "Mesh", "Box"},
        kw \in [Streams -> KwStates] :
          Construct(cls, transformKw, ctypeKw, "absent", kw)

SpecStreams == Init /\ [][NextStreams]_vars

(* ------------------------- auxiliary definitions ----------------------- *)

Range(seq) == {seq[i] : i \in 1..Len(seq)}

RECURSIVE Reach(_, _)
\* the objects reachable from the set S through Children in at most k steps
Reach(S, k) ==
  IF k = 0 THEN S
  ELSE Reach(S \cup UNION {Range(heap[n].Children) : n \in S}, k - 1)

\* the object r and everything below it
Subtree(r) == Reach({r}, MaxNodes)

\* the add_child calls so far that attached n, as positions of attachLog
AttachesOf(n) == {i \in 1..Len(attachLog) : attachLog[i][2] = n}

\* the places (parent, index) where n stands in a Children list
Occurrences(n) ==
  {<<p, i>> \in Live \X (1..MaxAttach + 1) :
      i <= Len(heap[p].Children) /\ heap[p].Children[i] = n}

\* r is a parentless Model and the add_child calls have linked a tree under
\* it: r was never attached, and every other object below it exactly once
IsModelTree(r) ==
  /\ r \in Live
  /\ heap[r].Class = "Model"
  /\ heap[r].Parent = 0
  /\ AttachesOf(r) = {}
  /\ \A n \in Subtree(r) \ {r} : Cardinality(AttachesOf(n)) = 1

\* the mesh-bearing objects below r in the order of the add_child calls
\* that attached them
MeshesInAttachOrder(r) ==
  LET IsMeshBelow(e) == e[2] \in Subtree(r) /\ heap[e[2]].IsMesh
      calls == SelectSeq(attachLog, IsMeshBelow)
  IN [i \in 1..Len(calls) |-> calls[i][2]]

(* -------------------------------- C1 ----------------------------------- *)

\* C1: whenever add_child calls, in any order, have assembled a tree under a
\* parentless Model, the Model's ListOfMeshes holds exactly the mesh-bearing
\* objects of the tree, each once, in the order they were attached.
C1_MeshRegistryComplete ==
  \A r \in Live :
    IsModelTree(r) => heap[r].ListOfMeshes = Some(MeshesInAttachOrder(r))

(* -------------------------------- C3 ----------------------------------- *)

\* n has the parent the first add_child call gave it and stands once, in
\* that parent's Children list only
HasItsOneParent(n) ==
  IF AttachesOf(n) = {}
  THEN heap[n].Parent = 0 /\ Occurrences(n) = {}
  ELSE LET first == CHOOSE i \in AttachesOf(n) : \A j \in AttachesOf(n) : i <= j
           parent == attachLog[first][1]
       IN /\ heap[n].Parent = parent
          /\ Cardinality(Occurrences(n)) = 1
          /\ \A o \in Occurrences(n) : o[1] = parent

ChildrenRecorded(n) ==
  LET o == heap[n]
  IN /\ IsSome(o.NodeData)
     /\ IF Len(o.Children) = 0
        THEN o.NodeData[2].Children = None
        ELSE /\ IsSome(o.NodeData[2].Children)
             /\ Len(o.NodeData[2].Children[2]) = Len(o.Children)
             /\ \A i \in 1..Len(o.Children) :
                  /\ IsSome(GetData(heap, o.Children[i]))
                  /\ o.NodeData[2].Children[2][i] = GetData(heap, o.Children[i])[2]

BuildReturned == lastOp = "construct_data" /\ err = "None"

\* C2: after construct_data on an object, the record of every object below
\* it has a children sequence with the length and order of the object's
\* Children, whose i-th element is the record get_data returns for the i-th
\* child.
C2_ChildrenRecordsInOrder ==
  BuildReturned => \A n \in Subtree(lastArg) : ChildrenRecorded(n)

\* construct_data has returned on an object with two different children
C2_Witness ==
  /\ BuildReturned
  /\ Len(heap[lastArg].Children) = 2
  /\ heap[lastArg].Children[1] # heap[lastArg].Children[2]

(* -------------------------------- C8 ----------------------------------- *)

\* C8: a construct_data call that follows a construct_data call on the same
\* object, with nothing done in between, returns and leaves every field of
\* every object, the records included, as the first call left it.
C8_BuildIdempotent ==
  [][(BuildReturned /\ lastOp' = "construct_data" /\ lastArg' = lastArg)
       => (heap' = heap /\ err' = "None")]_vars

\* construct_data has run twice in a row on an object with two children
C8_Witness ==
  /\ BuildReturned
  /\ rebuilt
  /\ Len(heap[lastArg].Children) = 2
  /\ heap[lastArg].Children[1] # heap[lastArg].Children[2]

(* -------------------------------- C9 ----------------------------------- *)

\* the positions of buildLog at which n's record was created
BuiltAt(n) == {i \in 1..Len(buildLog) : buildLog[i] = n}

\* C9: in one construct_data call an object's record is created after the
\* records of all its children, the children's in the order of Children, and
\* when the call returns every object below the root has a record.
C9_ChildFirst ==
  BuildReturned =>
    /\ \A i \in 1..Len(buildLog) :
         LET ch == heap[buildLog[i]].Children
         IN /\ \A k \in 1..Len(ch) : \E j \in BuiltAt(ch[k]) : j < i
            /\ \A k \in 1..Len(ch) - 1 :
                 \E j1 \in BuiltAt(ch[k]), j2 \in BuiltAt(ch[k + 1]) : j1 < j2 /\ j2 < i
    /\ \A n \in Subtree(lastArg) : IsSome(heap[n].NodeData) /\ BuiltAt(n) # {}
    /\ buildLog[Len(buildLog)] = lastArg

\* construct_data has returned on the top of a chain of three objects
C9_Witness ==
  /\ BuildReturned
  /\ Len(buildLog) = 3
  /\ \E c \in Range(heap[lastArg].Children) :
       \E d \in Range(heap[c].Children) : Cardinality({lastArg, c, d}) = 3

(* -------------------------------- C4 ----------------------------------- *)

\* the type tag of each variant
TypeTag(cls) ==
  CASE cls = "Mesh" -> "MESH"
    [] cls = "Locator" -> "LOCATOR"
    [] cls = "Joint" -> "JOINT"
    [] cls = "Emitter" -> "EMITTER"
    [] cls = "Collision" -> "COLLISION"
    [] cls = "Model" -> "MODEL"
    [] cls = "Reference" -> "REFERENCE"

\* C4: the construction of an object of any of the seven variants succeeds
\* and yields an object with the variant's type tag, no parent, no children,
\* null attributes and no record.
C4_ConstructSucceeds ==
  lastOp = "Construct" =>
    /\ err = "None"
    /\ lastArg \in Live
    /\ heap[lastArg].Type = TypeTag(lastData[2])
    /\ heap[lastArg].Parent = 0
    /\ heap[lastArg].Children = <<>>
    /\ heap[lastArg].Attributes = None
    /\ heap[lastArg].NodeData = None

(* -------------------------------- C5 ----------------------------------- *)

NullDataCall == lastOp = "create_attributes" /\ lastData = None

\* C5 as stated: create_attributes(None) is a no-op on a Locator, Joint or
\* Emitter, and on a Mesh, Model, Collision or Reference the attributes are
\* populated (not null) after the call.
C5_NullData ==
  NullDataCall =>
    LET o == heap[lastArg]
    IN /\ o.Class \in {"Locator", "Joint", "Emitter"} =>
            err = "None" /\ o.Attributes = prevAttributes
       /\ o.Class \in {"Mesh", "Model", "Collision", "Reference"} =>
            IsSome(o.Attributes)

\* C5 amended: create_attributes(None) is a no-op on a Locator, Joint or
\* Emitter; a Reference populates its attributes; a Collision is left with
\* attributes that are not null; a Mesh or a Model raises TypeError and keeps
\* the attributes it had, null if they were null.
C5_NullDataAmended ==
  NullDataCall =>
    LET o == heap[lastArg]
    IN /\ o.Class \in {"Locator", "Joint", "Emitter"} =>
            err = "None" /\ o.Attributes = prevAttributes
       /\ o.Class = "Reference" => err = "None" /\ IsSome(o.Attributes)
       /\ o.Class = "Collision" => IsSome(o.Attributes)
       /\ o.Class \in {"Mesh", "Model"} =>
            err = "TypeError" /\ o.Attributes = prevAttributes

\* create_attributes(None) has been called on a Mesh whose attributes were
\* null, and they still are
C5_Witness ==
  /\ NullDataCall
  /\ heap[lastArg].Class = "Mesh"
  /\ prevAttributes = None
  /\ heap[lastArg].Attributes = None

(* -------------------------------- C6 ----------------------------------- *)

\* the keys of data each variant's attribute schema requires
RequiredKeys(o) ==
  CASE o.Class = "Locator" -> {"ATTACHMENT"}
    [] o.Class = "Joint" -> {"JOINTINDEX"}
    [] o.Class = "Emitter" -> {"MATERIAL", "DATA"}
    [] o.Class = "Mesh" -> {"BATCHSTART", "BATCHCOUNT", "VERTRSTART", "VERTREND",
                            "MATERIAL", "ATTACHMENT"}
    [] o.Class = "Model" -> {"GEOMETRY"}
    [] o.Class = "Reference" -> {}
    [] o.Class = "Collision" ->
         CASE o.CType = "Mesh" -> {"BATCHSTART", "BATCHCOUNT", "VERTRSTART", "VERTREND"}
           [] o.CType = "Box" -> {"WIDTH", "HEIGHT", "DEPTH"}
           [] o.CType = "Sphere" -> {"RADIUS"}
           [] o.CType \in {"Capsule", "Cylinder"} -> {"RADIUS", "HEIGHT"}
           [] OTHER -> {}

\* the last call was create_attributes with a mapping that lacks a key the
\* object's schema requires
MissingKeyCall ==
  /\ lastOp = "create_attributes"
  /\ IsSome(lastData)
  /\ ~(RequiredKeys(heap[lastArg]) \subseteq lastData[2])

\* C6: create_attributes with a mapping that lacks a key the object's schema
\* requires ends with a KeyError raised to the caller.
C6_MissingKeyRaises == MissingKeyCall => err = "KeyError"

\* a Box collision was given a mapping without WIDTH and the call raised
C6_Witness ==
  /\ MissingKeyCall
  /\ heap[lastArg].Class = "Collision"
  /\ heap[lastArg].CType = "Box"
  /\ "WIDTH" \notin lastData[2]
  /\ {"HEIGHT", "DEPTH"} \subseteq lastData[2]
  /\ err = "KeyError"

(* -------------------------------- C7 ----------------------------------- *)

\* the constructor call was for a Mesh or for a Collision of type "Mesh"
MeshBearingCall ==
  \/ lastData[2] = "Mesh"
  \/ lastData[2] = "Collision" /\ lastData[3] \in {"absent", "Mesh"}

\* C7: constructing a Mesh or a mesh-type Collision succeeds whatever streams
\* are passed and sets provided_streams to the streams passed with a value;
\* every other object has an empty provided_streams.
C7_ProvidedStreams ==
  lastOp = "Construct" =>
    /\ MeshBearingCall =>
         /\ err = "None"
         /\ heap[lastArg].provided_streams = {s \in Streams : lastData[4][s] = "data"}
    /\ (~MeshBearingCall /\ err = "None") => heap[lastArg].provided_streams = {}

\* a Mesh was constructed with Vertices and Indexes, Normals passed as None
\* and the other streams not passed
C7_Witness ==
  /\ lastOp = "Construct"
  /\ lastData[2] = "Mesh"
  /\ lastData[4] = [s \in Streams |->
                      CASE s \in {"Vertices", "Indexes"} -> "data"
                        [] s = "Normals" -> "None"
                        [] OTHER -> "absent"]
  /\ heap[lastArg].provided_streams = {"Vertices", "Indexes"}

(* -------------------------------- C10 ---------------------------------- *)

\* C10: a create_attributes call that ends with a KeyError leaves the
\* object's attributes as they were before the call.
C10_FailedCallKeepsAttributes ==
  (lastOp = "create_attributes" /\ err = "KeyError") =>
    heap[lastArg].Attributes = prevAttributes

====
